---- MODULE Spec2Model ----
(***************************************************************************)
(* Verification model of exomol2lida:                                      *)
(*   - DatasetProcessor.process_states (exomol/process_dataset.py): the    *)
(*     chunk-wise lumping of the .states table,                            *)
(*   - _parse_exomol_def_raw / parse_exomol_line (exomol/parse_def.py,     *)
(*     exomol/utils.py): the .def reader,                                  *)
(*   - MoleculeInput.__init__ (read_inputs.py): the input validation,      *)
(*   - get_all_inputs (read_inputs.py): the inputs of all formulas,        *)
(*   - DatasetProcessor.trans_chunks: the chunks of the .trans files,      *)
(*   - parse_exomol_line (exomol/utils.py): calls on one list of lines.    *)
(* Each part has its own specification (SpecStates, SpecDef, SpecInput,    *)
(* SpecAll, SpecTrans, SpecLine); the variables of the other parts stay at *)
(* their idle values.                                                      *)
(***************************************************************************)
EXTENDS Integers, Sequences, FiniteSets, TLC

VARIABLES
    \* ---- process_states ----
    table,                          \* the rows of the .states file, in file order
    chunk_size,                     \* STATES_CHUNK_SIZE
    only_with,                      \* self.only_with
    energy_max,                     \* self.energy_max
    pos,                            \* rows of the file consumed by the chunk iterator
    st_pc,                          \* "idle" | "streaming" | "done" | "failed"
    st_error,                       \* the exception that ended process_states, or "none"
    lumped_states,                  \* the local data frame lumped_states
    self_lumped_states,             \* self.lumped_states (None until the end)
    states_map_lumped_to_original,  \* self.states_map_lumped_to_original
    states_map_original_to_lumped,  \* self.states_map_original_to_lumped
    \* ---- _parse_exomol_def_raw ----
    file_name,                      \* the file label of the error messages
    blanks,                         \* the blank lines among the popped lines
    popped,                         \* n_orig - len(lines): the lines popped so far
    def_line,                       \* the line read by the call that failed (a blank one when none)
    def_pc,                         \* the field read next | "idle" | "done" | "failed"
    kwargs,                         \* the fields of kwargs the result is made of
    def_error,                      \* the exception _parse_exomol_def_raw raised
    \* ---- MoleculeInput.__init__ ----
    mi,                             \* the attributes of the MoleculeInput
    in_pc,                          \* the step of __init__ | "idle" | "accepted" | "rejected"
    in_error,                       \* the exception __init__ raised
    io_log,                         \* the file system operations made so far
    \* ---- DatasetProcessor.__init__ ----
    dp_pc,                          \* "idle" | "constructed" | "raised"
    dp_error,                       \* the exception DatasetProcessor.__init__ raised
    \* ---- get_all_inputs ----
    inputs_dict,                    \* per formula of the file, what MoleculeInput(...) does
    bypass_exceptions,              \* the argument bypass_exceptions
    all_inputs,                     \* the local dict all_inputs, by position of the formula
    num_exceptions_raised,          \* the local counter
    ga_pc,                          \* "idle" | "loop" | "done" | "raised"
    ga_error,                       \* the exception that left get_all_inputs, or "none"
    ga_return,                      \* the value get_all_inputs returned
    \* ---- trans_chunks ----
    trans_files,                    \* per file of trans_paths: its columns and chunks
    tr_pc,                          \* "idle" | "start" | "yielding" | "done" | "failed"
    tr_error,                       \* the exception the generator raised, or "none"
    column_names,                   \* the local column_names
    tr_file,                        \* the position in trans_paths of the file being read
    tr_chunk,                       \* the chunks of that file yielded so far
    yielded,                        \* the chunks yielded so far
    \* ---- parse_exomol_line ----
    ln_text,                        \* the lines of the original text
    ln_lines,                       \* the list lines, which the calls pop from
    ln_last                         \* the last call: its list before, and what it did

statesVars == <<table, chunk_size, only_with, energy_max, pos, st_pc, st_error,
                lumped_states, self_lumped_states,
                states_map_lumped_to_original, states_map_original_to_lumped>>

defVars == <<file_name, blanks, popped, def_line, def_pc, kwargs, def_error>>

\* DatasetProcessor(molecule_input) follows MoleculeInput(...)
dpVars == <<dp_pc, dp_error>>

inVars == <<mi, in_pc, in_error, io_log, dpVars>>

allVars == <<inputs_dict, bypass_exceptions, all_inputs, num_exceptions_raised,
             ga_pc, ga_error, ga_return>>

\* the variables of the parts added to the first three
transVars == <<trans_files, tr_pc, tr_error, column_names, tr_file, tr_chunk, yielded>>

lineVars == <<ln_text, ln_lines, ln_last>>

moreVars == <<allVars, transVars, lineVars>>

vars == <<statesVars, defVars, inVars, moreVars>>

(***************************************************************************)
(* Bounds of the model.                                                    *)
(***************************************************************************)
MaxRows == 3
\* the largest count a .def text declares
MaxCount == 2
\* the most blank lines of a .def text
MaxBlank == 1
\* the longest resolve_el and resolve_vib of a request
MaxResolve == 1
\* the most .trans files of a dataset
MaxTransFiles == 2
\* the most formulas of an input file
MaxFormulas == 3
\* the most chunks of a .trans file
MaxChunks == 2
\* the most lines of a text parse_exomol_line is called on
MaxLines == 3

EnergyValues == {10, 12}
JValues == {0, 1}
VValues == {0, 1}

(***************************************************************************)
(* Floating point cells of a pandas frame: a number, NaN or +inf.          *)
(***************************************************************************)
Num(x) == [t |-> "num", x |-> x]
NaN == [t |-> "nan", x |-> 0]
Inf == [t |-> "inf", x |-> 0]

IsNa(a) == a.t = "nan"

\* a < b on float64 (any comparison with NaN is False)
FLt(a, b) ==
    /\ a.t = "num"
    /\ \/ b.t = "inf"
       \/ b.t = "num" /\ a.x < b.x

\* a == b on float64 (NaN == NaN is False)
FEq(a, b) ==
    \/ a.t = "num" /\ b.t = "num" /\ a.x = b.x
    \/ a.t = "inf" /\ b.t = "inf"

\* a + b on float64
FAdd(a, b) ==
    IF IsNa(a) \/ IsNa(b) THEN NaN
    ELSE IF a.t = "inf" \/ b.t = "inf" THEN Inf
    ELSE Num(a.x + b.x)

\* the cell of a Series after the outer alignment: NaN where the label is new
Cell(s, k) == IF k \in DOMAIN s THEN s[k] ELSE NaN

\* ops.fill_binop: a missing value is filled when the other side is present
FillLeft(a, b, fill) == IF IsNa(a) /\ ~IsNa(b) THEN fill ELSE a
FillRight(a, b, fill) == IF IsNa(b) /\ ~IsNa(a) THEN fill ELSE b

\* Series.lt(other, fill_value=fill): outer-aligned, filled, element-wise <
SeriesLt(left, right, fill) ==
    [k \in DOMAIN left \cup DOMAIN right |->
        FLt(FillLeft(Cell(left, k), Cell(right, k), fill),
            FillRight(Cell(left, k), Cell(right, k), fill))]

\* Series.eq(other): outer-aligned, element-wise ==
SeriesEq(left, right) ==
    [k \in DOMAIN left \cup DOMAIN right |-> FEq(Cell(left, k), Cell(right, k))]

\* frame.J
ColumnJ(frame) == [k \in DOMAIN frame |-> frame[k].J]

\* a row of pd.DataFrame(dtype='float64', columns=['J', 'sum_w', 'sum_en_x_w'])
NaNRow == [J |-> NaN, sum_w |-> NaN, sum_en_x_w |-> NaN]

(***************************************************************************)
(* The states table and the request.                                       *)
(***************************************************************************)
\* rows (E, g_tot, J, <state1>): every E, J and state with one weight, and
\* some rows of other weights
Rows ==
    [E : EnergyValues, g_tot : {2}, J : JValues, v : VValues]
    \cup {[E |-> 10, g_tot |-> 3, J |-> 0, v |-> 0],
          [E |-> 12, g_tot |-> 5, J |-> 1, v |-> 0],
          [E |-> 12, g_tot |-> 5, J |-> 0, v |-> 0]}

Tables == UNION {[1..n -> Rows] : n \in 1..MaxRows}

\* resolve_el + resolve_vib of the request
resolve_el == <<>>
resolve_vib == <<"v">>
resolved_quanta == resolve_el \o resolve_vib

\* only_with: column -> required value
OnlyWithChoices == {<<>>, [J |-> 0], [J |-> 0, v |-> 1]}

\* energy_max: None, or a number
NoEnergyMax == [is_none |-> TRUE, val |-> 0]
EnergyMaxChoices == {NoEnergyMax} \cup {[is_none |-> FALSE, val |-> 10]}

\* rows pos+1 .. pos+n of the file, indexed by the states index i
Chunk(tbl, from, n) ==
    [k \in 1..n |-> [i |-> from + k, E |-> tbl[from + k].E,
                     g_tot |-> tbl[from + k].g_tot, J |-> tbl[from + k].J,
                     v |-> tbl[from + k].v]]

\* mask of process_states: only_with and energy_max
RowMaskStrict(r, ow, emax) ==
    /\ \A c \in DOMAIN ow : r[c] = ow[c]
    /\ (~emax.is_none => r.E < emax.val)
RowMask(r, ow, emax) ==
    /\ \A c \in DOMAIN ow : r[c] = ow[c]
    /\ (~emax.is_none => r.E <= emax.val)

FilterChunk(chunk, ow, emax) == SelectSeq(chunk, LAMBDA r : RowMask(r, ow, emax))

\* tuple(df.iloc[0].loc[self.resolved_quanta])
LumpedState(r) == [k \in 1..Len(resolved_quanta) |-> r[resolved_quanta[k]]]

\* the groups of chunk.groupby(self.resolved_quanta)
GroupKeys(chunk) == {LumpedState(chunk[k]) : k \in 1..Len(chunk)}
GroupDf(chunk, key) == SelectSeq(chunk, LAMBDA r : LumpedState(r) = key)

(***************************************************************************)
(* _process_state_group                                                    *)
(***************************************************************************)
\* df.index
DfIndexFirst(df) == {df[1].i}
DfIndex(df) == {df[k].i : k \in 1..Len(df)}

\* self.states_map_lumped_to_original[lumped_state].update(df.index)
UpdateStatesMapOverwrite(map, key, idx) ==
    [k \in DOMAIN map \cup {key} |-> IF k = key THEN idx ELSE map[k]]
UpdateStatesMap(map, key, idx) ==
    [k \in DOMAIN map \cup {key} |->
        IF k = key THEN (IF key \in DOMAIN map THEN map[key] ELSE {}) \cup idx
        ELSE map[k]]

\* df.E.min()
MinE(df) == CHOOSE e \in {df[k].E : k \in 1..Len(df)} :
                \A k \in 1..Len(df) : e <= df[k].E

\* df.loc[df.E == df.E.min(), 'J'].values[0]
MinEnJLast(df) ==
    LET last == CHOOSE k \in 1..Len(df) :
                    /\ df[k].E = MinE(df)
                    /\ \A m \in (k + 1)..Len(df) : df[m].E # MinE(df)
    IN df[last].J
MinEnJ(df) ==
    LET first == CHOOSE k \in 1..Len(df) :
                    /\ df[k].E = MinE(df)
                    /\ \A m \in 1..(k - 1) : df[m].E # MinE(df)
    IN df[first].J

RECURSIVE SumGtot(_)
SumGtot(df) == IF df = <<>> THEN 0 ELSE Head(df).g_tot + SumGtot(Tail(df))

RECURSIVE SumEnXW(_)
SumEnXW(df) == IF df = <<>> THEN 0 ELSE Head(df).E * Head(df).g_tot + SumEnXW(Tail(df))

\* sub_df = df.loc[df.J == min_en_j]
SubDfAll(df) == df
SubDf(df) == SelectSeq(df, LAMBDA r : r.J = MinEnJ(df))

\* the returned pd.Series([min_en_j, sum_w, sum_en_x_w])
ProcessStateGroup(df) ==
    [J |-> Num(MinEnJ(df)), sum_w |-> Num(SumGtot(SubDf(df))),
     sum_en_x_w |-> Num(SumEnXW(SubDf(df)))]

\* lumped_states_chunk = chunk_grouped.apply(self._process_state_group)
LumpedStatesChunk(chunk) ==
    [key \in GroupKeys(chunk) |-> ProcessStateGroup(GroupDf(chunk, key))]

\* the side effect of the apply on self.states_map_lumped_to_original
RECURSIVE ApplyStatesMap(_, _, _)
ApplyStatesMap(map, chunk, keys) ==
    IF keys = {} THEN map
    ELSE LET key == CHOOSE k \in keys : TRUE
         IN ApplyStatesMap(UpdateStatesMap(map, key, DfIndex(GroupDf(chunk, key))),
                           chunk, keys \ {key})

(***************************************************************************)
(* process_states: the merge of one chunk into lumped_states               *)
(***************************************************************************)
ResetMask(lumped, lumped_chunk) == SeriesLt(ColumnJ(lumped_chunk), ColumnJ(lumped), Inf)

ResetIndex(lumped, lumped_chunk) ==
    {k \in DOMAIN ResetMask(lumped, lumped_chunk) : ResetMask(lumped, lumped_chunk)[k]}

\* pd.DataFrame(dtype='float64', columns=lumped_states.columns,
\*              index=lumped_states.index.union(reset_index))
NewFrameKeepOld(lumped, reset_index) ==
    [k \in DOMAIN lumped \cup reset_index |->
        IF k \in DOMAIN lumped THEN lumped[k] ELSE NaNRow]
NewFrame(lumped, reset_index) ==
    [k \in DOMAIN lumped \cup reset_index |-> NaNRow]

\* .loc[reset_index, 'J'] = chunk J; .loc[reset_index, ['sum_w', 'sum_en_x_w']] = [0, 0]
ResetRows(frame, lumped_chunk, reset_index) ==
    [k \in DOMAIN frame |->
        IF k \in reset_index
        THEN [J |-> lumped_chunk[k].J, sum_w |-> Num(0), sum_en_x_w |-> Num(0)]
        ELSE frame[k]]

\* update_mask = lumped_states_updated.J.eq(lumped_states_chunk.J), and the .add
UpdateRows(frame, lumped_chunk) ==
    LET update_mask == SeriesEq(ColumnJ(frame), ColumnJ(lumped_chunk))
    IN [k \in DOMAIN frame |->
           IF update_mask[k]
           THEN [J |-> frame[k].J,
                 sum_w |-> FAdd(frame[k].sum_w, lumped_chunk[k].sum_w),
                 sum_en_x_w |-> FAdd(frame[k].sum_en_x_w, lumped_chunk[k].sum_en_x_w)]
           ELSE frame[k]]

\* lumped_states after the body of the loop, for the filtered chunk
MergeChunk(lumped, chunk) ==
    LET lumped_chunk == LumpedStatesChunk(chunk)
        reset_index == ResetIndex(lumped, lumped_chunk)
    IN UpdateRows(ResetRows(NewFrame(lumped, reset_index), lumped_chunk, reset_index),
                  lumped_chunk)

(***************************************************************************)
(* process_states: the end                                                 *)
(***************************************************************************)
\* the number of decimals of round(..., 5), as a factor
Scale == 100000

\* round half to even of n / d, for n >= 0 and d > 0
RoundHalfEven(n, d) ==
    LET q == n \div d
        r == n % d
    IN IF 2 * r < d THEN q
       ELSE IF 2 * r > d THEN q + 1
       ELSE IF q % 2 = 0 THEN q ELSE q + 1

RoundTruncate(n, d) == n \div d

\* round(sum_en_x_w / sum_w, 5), in units of 1e-5
RoundedMean(sum_en_x_w, sum_w) ==
    IF IsNa(sum_en_x_w) \/ IsNa(sum_w) THEN NaN
    ELSE IF sum_w.x = 0 THEN (IF sum_en_x_w.x = 0 THEN NaN ELSE Inf)
    ELSE Num(RoundHalfEven(sum_en_x_w.x * Scale, sum_w.x))

\* lumped_states['E'] = ...; drop(columns=['sum_w', 'sum_en_x_w'])
FinalFrame(lumped) ==
    [k \in DOMAIN lumped |->
        [J |-> lumped[k].J, E |-> RoundedMean(lumped[k].sum_en_x_w, lumped[k].sum_w)]]

\* what groupby.apply / the following lines raise on a chunk without rows,
\* depending on the pandas version
EmptyChunkErrors == {"AttributeError", "KeyError", "IndexError"}

None == [is_none |-> TRUE]

(***************************************************************************)
(* The lines of a .def text.  A line is blank, or has no single "# "        *)
(* separator, or is "value # comment"; a value is the text of an integer,  *)
(* of a float ("5000.0"), of two floats ("40.97 6.8e-26"), a word, or      *)
(* empty.  The text of an integer may be negative ("-1"): int() takes it.  *)
(***************************************************************************)
BlankLine == [kind |-> "blank", t |-> "none", n |-> 0, s |-> ""]
NoSepLine == [kind |-> "nosep", t |-> "none", n |-> 0, s |-> ""]
IntLine(k) == [kind |-> "val", t |-> "int", n |-> k, s |-> ""]
FloatLine == [kind |-> "val", t |-> "float", n |-> 0, s |-> ""]
PairLine == [kind |-> "val", t |-> "pair", n |-> 0, s |-> ""]
WordLine(w) == [kind |-> "val", t |-> "word", n |-> 0, s |-> w]
EmptyValLine == [kind |-> "val", t |-> "empty", n |-> 0, s |-> ""]

Words == {"par", "v"}

NonBlankLines ==
    {NoSepLine, FloatLine, PairLine, EmptyValLine}
    \cup {IntLine(k) : k \in (-1)..MaxCount} \cup {WordLine(w) : w \in Words}

Blanks(b) == [k \in 1..b |-> BlankLine]

\* the front of lines a call can pop: blank lines and the first non-blank
\* line, or blank lines and the end of the text
Fronts(max_blank) ==
    {Blanks(b) \o <<l>> : b \in 0..max_blank, l \in NonBlankLines}
    \cup {Blanks(b) : b \in 0..max_blank}

\* the blank lines of a front
BlankCount(front) == Cardinality({k \in 1..Len(front) : front[k].kind = "blank"})

\* the file_name parse_exomol_def passes: the name of the .def file, never empty
FileNames == {"40Ca-1H__Yadin.def"}

\* Formula(kwargs['iso_formula']).natoms of the texts considered: the formula
\* of the file, (40Ca)(1H), has two atoms; 0 stands for a text pyvalem does not
\* parse (FormulaParseError)
FormulaNatoms == {0, 2}

(***************************************************************************)
(* parse_exomol_line                                                       *)
(***************************************************************************)
\* the position of the first line that is not blank, 0 when there is none
FirstNonBlank(lines) ==
    IF \E k \in 1..Len(lines) : lines[k].kind # "blank"
    THEN CHOOSE k \in 1..Len(lines) :
            /\ lines[k].kind # "blank"
            /\ \A m \in 1..(k - 1) : lines[m].kind = "blank"
    ELSE 0

\* val_type(val) does not raise ValueError
Converts(line, val_type) ==
    CASE val_type = "int" -> line.t = "int"
      [] val_type = "float" -> line.t \in {"int", "float"}
      [] OTHER -> TRUE

\* msg, with ' in {file_name}' when file_name is given
Message(text, line_num, file) == [text |-> text, line_num |-> line_num, file |-> file]

\* line_num = n_orig - len(lines), after the pop
LineNumBeforePop(n_orig, rest) == n_orig - Len(rest) - 1
LineNum(n_orig, rest) == n_orig - Len(rest)

\* the list an exception of a call leaves behind: the pop is not undone
LinesAfterErrorRestored(lines, rest) == lines
LinesAfterError(lines, rest) == rest

\* the outcome of parse_exomol_line(lines, n_orig, file_name=..., val_type=...):
\* the list after the call, the value or the exception
ParseExomolLine(lines, n_orig, val_type, file) ==
    LET k == FirstNonBlank(lines)
        rest == SubSeq(lines, k + 1, Len(lines))
    IN IF k = 0
       THEN [outcome |-> "ExomolLineValueError", lines |-> <<>>, val |-> BlankLine,
             msg |-> Message("Run out of lines", 0, file)]
       ELSE IF lines[k].kind = "nosep"
       THEN [outcome |-> "ExomolLineCommentError", lines |-> LinesAfterError(lines, rest),
             val |-> lines[k],
             msg |-> Message("Unexpected line format detected on line",
                             LineNum(n_orig, rest), file)]
       ELSE IF ~Converts(lines[k], val_type)
       THEN [outcome |-> "ExomolLineValueError", lines |-> LinesAfterError(lines, rest),
             val |-> lines[k],
             msg |-> Message("Unexpected value type detected on line",
                             LineNum(n_orig, rest), file)]
       ELSE [outcome |-> "ok", lines |-> rest, val |-> lines[k],
             msg |-> Message("", 0, "")]

(***************************************************************************)
(* _parse_exomol_def_raw: the fields in the order they are read            *)
(***************************************************************************)
\* the val_type of the parse_line call of a field
ValType(pc) ==
    CASE pc \in {"version", "num_atoms", "isotope_number", "ir_id", "ir_nsd",
                 "num_pressure_broadeners", "dipole_availability",
                 "num_cross_sections", "num_k_coefficients", "lifetime_availability",
                 "lande_factor_availability", "num_states", "num_quanta_cases",
                 "num_quanta"} -> "int"
      [] pc = "max_temp" -> "float"
      [] OTHER -> "str"

InitKwargs ==
    [formula_natoms |-> 0, num_atoms |-> 0, isotopes |-> 0,
     num_irreducible_representations |-> 0, irreducible_representations |-> 0,
     lifetime_availability |-> FALSE, lande_factor_availability |-> FALSE,
     num_quanta_cases |-> 0, quanta_cases |-> 0,
     num_quanta |-> 0, q_label |-> "", quanta |-> <<>>]

\* kwargs after the field's value is stored (lists by their length, quanta by
\* their labels; a Quantum is appended when its description is read)
StoreField(kw, pc, val) ==
    CASE pc = "num_atoms" -> [kw EXCEPT !.num_atoms = val.n]
      [] pc = "element_symbol" -> [kw EXCEPT !.isotopes = @ + 1]
      [] pc = "num_irreps" -> [kw EXCEPT !.num_irreducible_representations = val.n]
      [] pc = "ir_nsd" -> [kw EXCEPT !.irreducible_representations = @ + 1]
      [] pc = "lifetime_availability" -> [kw EXCEPT !.lifetime_availability = (val.n # 0)]
      [] pc = "lande_factor_availability" ->
            [kw EXCEPT !.lande_factor_availability = (val.n # 0)]
      [] pc = "num_quanta_cases" -> [kw EXCEPT !.num_quanta_cases = val.n]
      [] pc = "quantum_case_label" -> [kw EXCEPT !.quanta_cases = @ + 1]
      [] pc = "num_quanta" -> [kw EXCEPT !.num_quanta = val.n]
      [] pc = "q_label" -> [kw EXCEPT !.q_label = val.s]
      [] pc = "q_description" -> [kw EXCEPT !.quanta = Append(@, kw.q_label)]
      [] OTHER -> kw

\* formula = Formula(kwargs['iso_formula']), made when num_atoms is read:
\* kept by its natoms
StoreFormula(kw, pc, natoms) ==
    IF pc = "num_atoms" THEN [kw EXCEPT !.formula_natoms = natoms] ELSE kw

\* the field read after pc, kw being kwargs with the field stored
NextField(pc, kw) ==
    CASE pc = "id" -> "iso_formula"
      [] pc = "iso_formula" -> "iso_slug"
      [] pc = "iso_slug" -> "dataset_name"
      [] pc = "dataset_name" -> "version"
      [] pc = "version" -> "inchi_key"
      [] pc = "inchi_key" -> "num_atoms"
      [] pc = "num_atoms" -> IF kw.num_atoms > 0 THEN "isotope_number" ELSE "mass"
      [] pc = "isotope_number" -> "element_symbol"
      [] pc = "element_symbol" ->
            IF kw.isotopes < kw.num_atoms THEN "isotope_number" ELSE "mass"
      [] pc = "mass" -> "symmetry_group"
      [] pc = "symmetry_group" -> "num_irreps"
      [] pc = "num_irreps" ->
            IF kw.num_irreducible_representations > 0 THEN "ir_id" ELSE "max_temp"
      [] pc = "ir_id" -> "ir_label"
      [] pc = "ir_label" -> "ir_nsd"
      [] pc = "ir_nsd" ->
            IF kw.irreducible_representations < kw.num_irreducible_representations
            THEN "ir_id" ELSE "max_temp"
      [] pc = "max_temp" -> "num_pressure_broadeners"
      [] pc = "num_pressure_broadeners" -> "dipole_availability"
      [] pc = "dipole_availability" -> "num_cross_sections"
      [] pc = "num_cross_sections" -> "num_k_coefficients"
      [] pc = "num_k_coefficients" -> "lifetime_availability"
      [] pc = "lifetime_availability" -> "lande_factor_availability"
      [] pc = "lande_factor_availability" -> "num_states"
      [] pc = "num_states" -> "num_quanta_cases"
      [] pc = "num_quanta_cases" ->
            IF kw.num_quanta_cases > 0 THEN "quantum_case_label" ELSE "num_quanta"
      [] pc = "quantum_case_label" ->
            IF kw.quanta_cases < kw.num_quanta_cases
            THEN "quantum_case_label" ELSE "num_quanta"
      [] pc = "num_quanta" -> IF kw.num_quanta > 0 THEN "q_label" ELSE "num_transitions"
      [] pc = "q_label" -> "q_format"
      [] pc = "q_format" -> "q_description"
      [] pc = "q_description" ->
            IF Len(kw.quanta) < kw.num_quanta THEN "q_label" ELSE "num_transitions"
      [] pc = "num_transitions" -> "num_trans_files"
      [] pc = "num_trans_files" -> "max_wavenumber"
      [] pc = "max_wavenumber" -> "high_energy_complete"
      [] OTHER -> "done"

NoError == [kind |-> "none", msg |-> Message("", 0, "")]

\* what follows the parse_line call of a field before the next call: the
\* conversions made outside parse_line and the check of the formula (natoms is
\* Formula(iso_formula).natoms, 0 when pyvalem raises FormulaParseError)
AfterField(pc, val, natoms, file) ==
    CASE pc = "mass" /\ val.t = "word" ->
            \* float(...) of the first token
            [kind |-> "ValueError", msg |-> Message("could not convert", 0, "")]
      [] pc = "mass" /\ val.t = "empty" ->
            \* ''.split()[0]
            [kind |-> "IndexError", msg |-> Message("list index out of range", 0, "")]
      [] pc = "num_irreps" /\ val.t # "int" ->
            \* int(parse_line(...))
            [kind |-> "ValueError", msg |-> Message("invalid literal", 0, "")]
      [] pc = "num_atoms" /\ natoms = 0 ->
            [kind |-> "ExomolDefParseError", msg |-> Message("FormulaParseError", 0, file)]
      [] pc = "num_atoms" /\ natoms # 0 /\ natoms # val.n ->
            [kind |-> "ExomolDefParseError",
             msg |-> Message("Incorrect number of atoms in", 0, "ds_name")]
      [] OTHER -> NoError

\* except (ExomolLineValueError, ExomolLineCommentError) as e:
\*     raise ExomolDefParseError(str(e))
WrapLineError(r) == [kind |-> "ExomolDefParseError", msg |-> r.msg]

\* ExomolDef.get_quanta_labels
GetQuantaLabels(d) == d.quanta

\* ExomolDef.get_states_header_mandatory
GetStatesHeaderMandatory(d) ==
    <<"i", "E", "g_tot", "J">>
    \o (IF d.lifetime_availability THEN <<"tau">> ELSE <<>>)
    \o (IF d.lande_factor_availability THEN <<"g_J">> ELSE <<>>)

\* ExomolDef.get_states_header
GetStatesHeaderLabelsFirst(d) == GetQuantaLabels(d) \o GetStatesHeaderMandatory(d)
GetStatesHeader(d) == GetStatesHeaderMandatory(d) \o GetQuantaLabels(d)

(***************************************************************************)
(* MoleculeInput.__init__                                                  *)
(***************************************************************************)
FixedColumns == {"i", "E", "g_tot", "J", "tau", "g_J"}

\* the labels a request may name in resolve_el, resolve_vib and only_with
RequestLabels == {"v", "par", "J", "tau"}

ResolveChoices == UNION {[1..n -> RequestLabels] : n \in 0..MaxResolve}

OnlyWithKeyChoices == {{}, {"J"}, {"v"}, {"E"}, {"tau"}, {"J", "par"}}

\* the "states_header" entries of the input file
HeaderChoices ==
    {<<"i", "E", "g_tot", "J", "v">>,
     <<"i", "E", "g_tot", "J", "tau", "par", "v">>,
     <<"E", "i", "g_tot", "J", "v">>,
     <<"i", "E">>}

\* the quanta labels of a .def file
QuantaChoices == {<<>>, <<"v">>, <<"par", "v">>, <<"v", "par">>}

\* the numbers of columns of a .states file
StatesColumnChoices == {5, 6, 7}

\* the numbers of columns of a .trans file
TransColumnChoices == {2, 3, 4, 5}

Range(seq) == {seq[k] : k \in 1..Len(seq)}

\* self.states_header[:4]
Take(seq, n) == SubSeq(seq, 1, IF Len(seq) < n THEN Len(seq) ELSE n)

\* lines 158-163: the header derived from the parsed .def file
DerivedStatesHeader(lifetime, lande, labels) ==
    <<"i", "E", "g_tot", "J">>
    \o (IF lifetime THEN <<"tau">> ELSE <<>>)
    \o (IF lande THEN <<"g_J">> ELSE <<>>)
    \o labels

MoleculeInputError(text) == [kind |-> "MoleculeInputError", text |-> text]
DefParseError == [kind |-> "DefParseError", text |-> "DefParseError"]
NoInputError == [kind |-> "none", text |-> ""]

\* lines 171-174
CommonValuesNever(el, vib) == FALSE
CommonValues(el, vib) == Range(el) \cap Range(vib) # {}

\* lines 175-180
FixedResolved(el, vib) == Range(el \o vib) \cap FixedColumns # {}

\* lines 181-183
QuantaAvailable(header) == Range(header) \ FixedColumns

\* lines 184-187
ResolvedUnavailableNever(el, vib, header) == FALSE
ResolvedUnavailable(el, vib, header) == ~(Range(el \o vib) \subseteq QuantaAvailable(header))

\* lines 189-193
OnlyWithUnavailable(ow, header) == ~(ow \subseteq (QuantaAvailable(header) \cup {"J"}))

\* lines 116-120
NothingResolved(el, vib) == ~(Len(el) # 0 \/ Len(vib) # 0)

\* lines 170-193: the checks of resolve_el, resolve_vib and only_with
QuantaError(el, vib, ow, header) ==
    IF CommonValues(el, vib)
    THEN MoleculeInputError("Common values found in 'resolve_el' and 'resolve_vib'!")
    ELSE IF FixedResolved(el, vib)
    THEN MoleculeInputError("Unsupported values found in 'resolve_el' or 'resolve_vib'!")
    ELSE IF ResolvedUnavailable(el, vib, header)
    THEN MoleculeInputError("Unsupported values found in 'resolve_el' or 'resolve_vib'!")
    ELSE IF OnlyWithUnavailable(ow, header)
    THEN MoleculeInputError("Unrecognised only_with passed")
    ELSE NoInputError

(***************************************************************************)
(* DatasetProcessor.__init__                                               *)
(***************************************************************************)
\* self.states_header[4:]
Drop(seq, n) == SubSeq(seq, n + 1, Len(seq))

\* the checks DatasetProcessor.__init__ makes of resolve_el, resolve_vib and
\* only_with (by their keys) against the columns after the first four
ProcessorError(el, vib, ow, header) ==
    IF Len(el) = 0 /\ Len(vib) = 0
    THEN MoleculeInputError("needs to implement at least one of resolve_el, resolve_vib")
    ELSE IF ~(Range(el) \subseteq Range(Drop(header, 4)))
    THEN MoleculeInputError("Unrecognised resolve_el passed")
    ELSE IF ~(Range(vib) \subseteq Range(Drop(header, 4)))
    THEN MoleculeInputError("Unrecognised resolve_vib passed")
    ELSE IF ~(ow \subseteq Range(Drop(header, 4)))
    THEN MoleculeInputError("Unrecognised only_with passed")
    ELSE NoInputError

\* the variables of the other operations while one operation is followed
IdleStates ==
    /\ table = <<>>
    /\ chunk_size = 1
    /\ only_with = <<>>
    /\ energy_max = NoEnergyMax
    /\ pos = 0
    /\ st_pc = "idle"
    /\ st_error = "none"
    /\ lumped_states = <<>>
    /\ self_lumped_states = None
    /\ states_map_lumped_to_original = <<>>
    /\ states_map_original_to_lumped = <<>>

IdleDef ==
    /\ file_name = ""
    /\ blanks = 0
    /\ popped = 0
    /\ def_line = BlankLine
    /\ def_pc = "idle"
    /\ kwargs = InitKwargs
    /\ def_error = NoError

IdleProcessor ==
    /\ dp_pc = "idle"
    /\ dp_error = NoInputError

IdleInput ==
    /\ mi = <<>>
    /\ in_pc = "idle"
    /\ in_error = NoInputError
    /\ io_log = <<>>
    /\ IdleProcessor

IdleAll ==
    /\ inputs_dict = <<>>
    /\ bypass_exceptions = FALSE
    /\ all_inputs = <<>>
    /\ num_exceptions_raised = 0
    /\ ga_pc = "idle"
    /\ ga_error = "none"
    /\ ga_return = None

IdleTrans ==
    /\ trans_files = <<>>
    /\ tr_pc = "idle"
    /\ tr_error = "none"
    /\ column_names = <<>>
    /\ tr_file = 0
    /\ tr_chunk = 0
    /\ yielded = <<>>

NoCall == [val_type |-> "none", before |-> <<>>, outcome |-> "none", val |-> BlankLine,
           line_num |-> 0]

IdleLine ==
    /\ ln_text = <<>>
    /\ ln_lines = <<>>
    /\ ln_last = NoCall

IdleMore == IdleAll /\ IdleTrans /\ IdleLine

InitInput ==
    /\ mi \in [slugs_given : BOOLEAN,
               resolve_el : ResolveChoices, resolve_vib : ResolveChoices,
               only_with : OnlyWithKeyChoices,
               header_given : BOOLEAN, states_header : HeaderChoices \cup {<<>>},
               def_parsed : {FALSE}, trans_paths : {0}, states_num_columns : {0},
               trans_num_columns : {0}]
    /\ mi.header_given = (mi.states_header # <<>>)
    /\ in_pc = "args"
    /\ in_error = NoInputError
    /\ io_log = <<>>
    /\ IdleProcessor
    /\ IdleStates
    /\ IdleDef
    /\ IdleMore

Reject(error) ==
    /\ in_pc' = "rejected"
    /\ in_error' = error

\* lines 94-120: the attributes, the mandatory ones and the resolve lists
CheckArgs ==
    /\ in_pc = "args"
    /\ IF ~mi.slugs_given
       THEN Reject(MoleculeInputError("missing some of the mandatory attributes"))
       ELSE IF NothingResolved(mi.resolve_el, mi.resolve_vib)
       THEN Reject(MoleculeInputError("missing one of the 'resolve_el', 'resolve_vib'"))
       ELSE in_pc' = "mol_root" /\ UNCHANGED in_error
    /\ UNCHANGED <<mi, io_log>>
    /\ UNCHANGED <<statesVars, defVars, moreVars, dpVars>>

\* lines 122-144: the directories and files that have to exist, one after the other
PathStep(pc, op, next, text) ==
    /\ in_pc = pc
    /\ io_log' = Append(io_log, op)
    /\ \E exists \in BOOLEAN :
          IF exists THEN in_pc' = next /\ UNCHANGED in_error
          ELSE Reject(MoleculeInputError(text))
    /\ UNCHANGED mi
    /\ UNCHANGED <<statesVars, defVars, moreVars, dpVars>>

CheckMolRoot ==
    PathStep("mol_root", "mol_root.is_dir", "iso_root", "The molecule directory not found")
CheckIsoRoot ==
    PathStep("iso_root", "iso_root.is_dir", "ds_root", "The isotopologue directory not found")
CheckDsRoot ==
    PathStep("ds_root", "ds_root.is_dir", "def_path", "The dataset directory not found")
CheckDefPath ==
    PathStep("def_path", "def_path.is_file", "states_path", "The .def file not found")
CheckStatesPath ==
    PathStep("states_path", "states_path.is_file", "trans_paths",
             "The .states file not found")

\* lines 145-150
GlobTransPaths ==
    /\ in_pc = "trans_paths"
    /\ io_log' = Append(io_log, "ds_root.glob")
    /\ \E n \in 0..MaxTransFiles :
          /\ mi' = [mi EXCEPT !.trans_paths = n]
          /\ IF n = 0 THEN Reject(MoleculeInputError("No .trans files found"))
             ELSE in_pc' = "states_header" /\ UNCHANGED in_error
    /\ UNCHANGED <<statesVars, defVars, moreVars, dpVars>>

\* lines 152-169: the header from the .def file, or the header of the input
StatesHeader ==
    /\ in_pc = "states_header"
    /\ IF ~mi.header_given
       THEN /\ io_log' = Append(io_log, "DefParser.parse")
            /\ \/ /\ Reject(DefParseError)
                  /\ UNCHANGED mi
               \/ \E lifetime \in BOOLEAN, lande \in BOOLEAN, labels \in QuantaChoices :
                     /\ mi' = [mi EXCEPT !.def_parsed = TRUE,
                                         !.states_header =
                                             DerivedStatesHeader(lifetime, lande, labels)]
                     /\ in_pc' = "quanta"
                     /\ UNCHANGED in_error
       ELSE /\ IF Take(mi.states_header, 4) # <<"i", "E", "g_tot", "J">>
               THEN Reject(MoleculeInputError("Unexpected states_header"))
               ELSE in_pc' = "quanta" /\ UNCHANGED in_error
            /\ UNCHANGED <<mi, io_log>>
    /\ UNCHANGED <<statesVars, defVars, moreVars, dpVars>>

\* lines 170-193
CheckQuanta ==
    /\ in_pc = "quanta"
    /\ LET e == QuantaError(mi.resolve_el, mi.resolve_vib, mi.only_with, mi.states_header)
       IN IF e.kind # "none" THEN Reject(e)
          ELSE in_pc' = "states_columns" /\ UNCHANGED in_error
    /\ UNCHANGED <<mi, io_log>>
    /\ UNCHANGED <<statesVars, defVars, moreVars, dpVars>>

\* lines 195-204
ColumnsDiffer(header, n) == Len(header) # n

CheckStatesColumns ==
    /\ in_pc = "states_columns"
    /\ io_log' = Append(io_log, "get_num_columns(states_path)")
    /\ \E n \in StatesColumnChoices :
          /\ mi' = [mi EXCEPT !.states_num_columns = n]
          /\ IF ColumnsDiffer(mi.states_header, n)
             THEN Reject(MoleculeInputError("columns of the .states file"))
             ELSE in_pc' = "trans_columns" /\ UNCHANGED in_error
    /\ UNCHANGED <<statesVars, defVars, moreVars, dpVars>>

\* lines 206-213
CheckTransColumns ==
    /\ in_pc = "trans_columns"
    /\ io_log' = Append(io_log, "get_num_columns(trans_paths[0])")
    /\ \E n \in TransColumnChoices :
          /\ mi' = [mi EXCEPT !.trans_num_columns = n]
          /\ IF n \notin {3, 4}
             THEN Reject(MoleculeInputError("3 or 4 columns are expected"))
             ELSE in_pc' = "accepted" /\ UNCHANGED in_error
    /\ UNCHANGED <<statesVars, defVars, moreVars, dpVars>>

\* DatasetProcessor(molecule_input) of a MoleculeInput that was constructed
ConstructProcessor ==
    /\ in_pc = "accepted"
    /\ dp_pc = "idle"
    /\ LET e == ProcessorError(mi.resolve_el, mi.resolve_vib, mi.only_with,
                               mi.states_header)
       IN /\ dp_error' = e
          /\ dp_pc' = (IF e.kind # "none" THEN "raised" ELSE "constructed")
    /\ UNCHANGED <<mi, in_pc, in_error, io_log, statesVars, defVars, moreVars>>

NextInput ==
    \/ CheckArgs
    \/ CheckMolRoot
    \/ CheckIsoRoot
    \/ CheckDsRoot
    \/ CheckDefPath
    \/ CheckStatesPath
    \/ GlobTransPaths
    \/ StatesHeader
    \/ CheckQuanta
    \/ CheckStatesColumns
    \/ CheckTransColumns
    \/ ConstructProcessor

SpecInput == InitInput /\ [][NextInput]_vars

(***************************************************************************)
(* get_all_inputs                                                          *)
(***************************************************************************)
\* what MoleculeInput(molecule_formula, **inputs_dict[molecule_formula]) does:
\* it returns the MoleculeInput, raises one of the two errors of its
\* validation, or raises another error (float(self.energy_max), line 110)
Constructions == {"MoleculeInput", "MoleculeInputError", "DefParseError", "ValueError"}

\* except (MoleculeInputError, DefParseError)
Bypassed(construction) == construction \in {"MoleculeInputError", "DefParseError"}

\* the value get_all_inputs gives back: the function has no return statement
ReturnValue(inputs) == None

InitAll ==
    /\ inputs_dict \in UNION {[1..n -> Constructions] : n \in 1..MaxFormulas}
    /\ bypass_exceptions \in BOOLEAN
    /\ all_inputs = <<>>
    /\ num_exceptions_raised = 0
    /\ ga_pc = "loop"
    /\ ga_error = "none"
    /\ ga_return = None
    /\ IdleStates
    /\ IdleDef
    /\ IdleInput
    /\ IdleTrans
    /\ IdleLine

\* one iteration of "for molecule_formula in inputs_dict"
NextFormula ==
    /\ ga_pc = "loop"
    /\ Len(all_inputs) < Len(inputs_dict)
    /\ LET construction == inputs_dict[Len(all_inputs) + 1]
       IN IF construction = "MoleculeInput"
          THEN /\ all_inputs' = Append(all_inputs, "MoleculeInput")
               /\ UNCHANGED <<num_exceptions_raised, ga_pc, ga_error>>
          ELSE IF bypass_exceptions /\ Bypassed(construction)
          THEN /\ num_exceptions_raised' = num_exceptions_raised + 1
               /\ all_inputs' = Append(all_inputs, "None")
               /\ UNCHANGED <<ga_pc, ga_error>>
          ELSE /\ ga_pc' = "raised"
               /\ ga_error' = construction
               /\ UNCHANGED <<all_inputs, num_exceptions_raised>>
    /\ UNCHANGED <<inputs_dict, bypass_exceptions, ga_return, statesVars, defVars, inVars,
                   transVars, lineVars>>

\* the lines after the loop and the end of the function
FinishAll ==
    /\ ga_pc = "loop"
    /\ Len(all_inputs) = Len(inputs_dict)
    /\ ga_return' = ReturnValue(all_inputs)
    /\ ga_pc' = "done"
    /\ UNCHANGED <<inputs_dict, bypass_exceptions, all_inputs, num_exceptions_raised,
                   ga_error, statesVars, defVars, inVars, transVars, lineVars>>

NextAll == NextFormula \/ FinishAll

SpecAll == InitAll /\ [][NextAll]_vars

(***************************************************************************)
(* DatasetProcessor.trans_chunks                                           *)
(***************************************************************************)
\* a .trans file: the columns of its rows and the chunks read_csv cuts it into
TransFiles == [cols : TransColumnChoices, chunks : 1..MaxChunks]

\* lines 113-119: the schema for the number of columns of the first file, and
\* whether that number is accepted
ColumnNamesNoRate(num_cols) == <<"i", "f", "A_if">>
ColumnNames(num_cols) ==
    IF num_cols = 4 THEN <<"i", "f", "A_if", "v_if">> ELSE <<"i", "f", "A_if">>

SchemaError(num_cols) == num_cols # 4 /\ num_cols # 3

\* the file the number of columns is taken of
SniffedFile(files) == files[1]

InitTrans ==
    /\ trans_files \in UNION {[1..n -> TransFiles] : n \in 1..MaxTransFiles}
    /\ tr_pc = "start"
    /\ tr_error = "none"
    /\ column_names = <<>>
    /\ tr_file = 0
    /\ tr_chunk = 0
    /\ yielded = <<>>
    /\ IdleStates
    /\ IdleDef
    /\ IdleInput
    /\ IdleAll
    /\ IdleLine

\* the first next() of the generator, up to the loop over the files
StartTrans ==
    /\ tr_pc = "start"
    /\ LET num_cols == SniffedFile(trans_files).cols
       IN /\ column_names' = ColumnNames(num_cols)
          /\ IF SchemaError(num_cols)
             THEN tr_pc' = "failed" /\ tr_error' = "ExomolTransParseError"
                  /\ UNCHANGED tr_file
             ELSE tr_pc' = "yielding" /\ tr_file' = 1 /\ UNCHANGED tr_error
    /\ UNCHANGED <<trans_files, tr_chunk, yielded, statesVars, defVars, inVars, allVars,
                   lineVars>>

\* "yield chunk": the next chunk of the file being read
YieldChunk ==
    /\ tr_pc = "yielding"
    /\ tr_chunk < trans_files[tr_file].chunks
    /\ tr_chunk' = tr_chunk + 1
    /\ yielded' = Append(yielded, [file |-> tr_file, chunk |-> tr_chunk + 1,
                                   columns |-> column_names])
    /\ UNCHANGED <<trans_files, tr_pc, tr_error, column_names, tr_file,
                   statesVars, defVars, inVars, allVars, lineVars>>

\* the file is exhausted: the next file of trans_paths, or the end
NextTransFile ==
    /\ tr_pc = "yielding"
    /\ tr_chunk = trans_files[tr_file].chunks
    /\ IF tr_file < Len(trans_files)
       THEN tr_file' = tr_file + 1 /\ tr_chunk' = 0 /\ UNCHANGED tr_pc
       ELSE tr_pc' = "done" /\ UNCHANGED <<tr_file, tr_chunk>>
    /\ UNCHANGED <<trans_files, tr_error, column_names, yielded,
                   statesVars, defVars, inVars, allVars, lineVars>>

NextTrans == StartTrans \/ YieldChunk \/ NextTransFile

SpecTrans == InitTrans /\ [][NextTrans]_vars

(***************************************************************************)
(* Calls of parse_exomol_line on one list                                  *)
(***************************************************************************)
ValTypes == {"str", "int", "float"}

InitLine ==
    /\ ln_text \in UNION {[1..n -> NonBlankLines \cup {BlankLine}] : n \in 1..MaxLines}
    /\ ln_lines = ln_text
    /\ ln_last = NoCall
    /\ IdleStates
    /\ IdleDef
    /\ IdleInput
    /\ IdleAll
    /\ IdleTrans

\* parse_exomol_line(lines, n_orig, file_name=..., val_type=...), n_orig being
\* the length of the original text; an exception is caught by the caller
CallParseLine ==
    /\ ln_text # <<>>
    /\ \E val_type \in ValTypes, file \in FileNames :
          LET r == ParseExomolLine(ln_lines, Len(ln_text), val_type, file)
          IN /\ ln_lines' = r.lines
             /\ ln_last' = [val_type |-> val_type, before |-> ln_lines,
                            outcome |-> r.outcome, val |-> r.val,
                            line_num |-> IF r.outcome = "ok"
                                         THEN LineNum(Len(ln_text), r.lines)
                                         ELSE r.msg.line_num]
    /\ UNCHANGED <<ln_text, statesVars, defVars, inVars, allVars, transVars>>

NextLine == CallParseLine

SpecLine == InitLine /\ [][NextLine]_vars

(***************************************************************************)
(* Actions of _parse_exomol_def_raw                                        *)
(***************************************************************************)
InitDef ==
    /\ file_name \in FileNames
    /\ blanks = 0
    /\ popped = 0
    /\ def_line = BlankLine
    /\ def_pc = "id"
    /\ kwargs = InitKwargs
    /\ def_error = NoError
    /\ IdleStates
    /\ IdleInput
    /\ IdleMore

\* one parse_line call and the statements up to the next one; the lines in
\* front of the text are the blank lines the call pops and the line it reads
\* (an exception leaves the function, and kwargs is lost with it)
ParseField ==
    /\ def_pc \notin {"idle", "done"}
    /\ def_error.kind = "none"
    /\ \E front \in Fronts(MaxBlank - blanks),
          natoms \in (IF def_pc = "num_atoms" THEN FormulaNatoms ELSE {0}) :
          LET r == ParseExomolLine(front, popped + Len(front), ValType(def_pc), file_name)
              e == AfterField(def_pc, r.val, natoms, file_name)
          IN /\ blanks' = blanks + BlankCount(front)
             /\ popped' = popped + (Len(front) - Len(r.lines))
             /\ def_line' = (IF r.outcome # "ok" \/ e.kind # "none" THEN r.val ELSE BlankLine)
             /\ IF r.outcome # "ok"
                THEN /\ def_error' = WrapLineError(r)
                     /\ kwargs' = InitKwargs
                     /\ UNCHANGED def_pc
                ELSE IF e.kind # "none"
                THEN /\ def_error' = e
                     /\ kwargs' = InitKwargs
                     /\ UNCHANGED def_pc
                ELSE /\ kwargs' = StoreFormula(StoreField(kwargs, def_pc, r.val),
                                                def_pc, natoms)
                     /\ def_pc' = NextField(def_pc, kwargs')
                     /\ UNCHANGED def_error
    /\ UNCHANGED <<file_name, statesVars, inVars, moreVars>>

NextDef == ParseField

SpecDef == InitDef /\ [][NextDef]_vars

(***************************************************************************)
(* Actions of process_states                                               *)
(***************************************************************************)
InitStates ==
    /\ table \in Tables
    /\ chunk_size \in 1..MaxRows
    /\ only_with \in OnlyWithChoices
    /\ energy_max \in EnergyMaxChoices
    /\ pos = 0
    /\ st_pc = "streaming"
    /\ st_error = "none"
    /\ lumped_states = <<>>
    /\ self_lumped_states = None
    /\ states_map_lumped_to_original = <<>>
    /\ states_map_original_to_lumped = <<>>
    /\ IdleDef
    /\ IdleInput
    /\ IdleMore

\* the length of the next chunk of the iterator
NextChunkLen == IF Len(table) - pos < chunk_size THEN Len(table) - pos ELSE chunk_size

\* one iteration of "for chunk in self.states_chunks"
ProcessChunk ==
    /\ st_pc = "streaming"
    /\ pos < Len(table)
    /\ LET chunk == FilterChunk(Chunk(table, pos, NextChunkLen), only_with, energy_max)
       IN IF chunk = <<>>
          THEN /\ st_pc' = "failed"
               /\ st_error' \in EmptyChunkErrors
               /\ UNCHANGED <<lumped_states, states_map_lumped_to_original>>
          ELSE /\ lumped_states' = MergeChunk(lumped_states, chunk)
               /\ states_map_lumped_to_original' =
                      ApplyStatesMap(states_map_lumped_to_original, chunk, GroupKeys(chunk))
               /\ UNCHANGED <<st_pc, st_error>>
    /\ pos' = pos + NextChunkLen
    /\ UNCHANGED <<table, chunk_size, only_with, energy_max, self_lumped_states,
                   states_map_original_to_lumped, defVars, inVars, moreVars>>

\* the lines after the loop
FinishStates ==
    /\ st_pc = "streaming"
    /\ pos = Len(table)
    /\ self_lumped_states' = FinalFrame(lumped_states)
    /\ st_pc' = "done"
    /\ UNCHANGED <<table, chunk_size, only_with, energy_max, pos, st_error, lumped_states,
                   states_map_lumped_to_original, states_map_original_to_lumped,
                   defVars, inVars, moreVars>>

NextStates == ProcessChunk \/ FinishStates

SpecStates == InitStates /\ [][NextStates]_vars

(***************************************************************************)
(* Properties of process_states                                            *)
(***************************************************************************)
\* the rows of the file that pass only_with and energy_max, by states index
SurvivingIndices ==
    {i \in 1..Len(table) :
        /\ \A c \in DOMAIN only_with : table[i][c] = only_with[c]
        /\ (energy_max.is_none \/ table[i].E <= energy_max.val)}

\* the surviving rows of the whole table, as one chunk
WholeTableChunk == FilterChunk(Chunk(table, 0, Len(table)), only_with, energy_max)

\* C1: for a fixed table and request the final lumped-states table (per group
\* the minimum-energy J and the weighted-mean E) is the same for every chunk
\* size as for the whole table processed as one chunk.
C1_ChunkSizeInvariance ==
    st_pc = "done" =>
        self_lumped_states = FinalFrame(MergeChunk(<<>>, WholeTableChunk))

\* the surviving rows of a group among the first n rows of the file
EarlierGroupDf(n, key) ==
    GroupDf(FilterChunk(Chunk(table, 0, n), only_with, energy_max), key)

\* C2: when a chunk holds a surviving row of a group whose E is strictly lower
\* than the E of every row of the group seen in earlier chunks, the group's
\* running aggregate after the chunk is the chunk's local aggregate alone,
\* whatever the J values of the old and the new minimum are.
C2_LowerEnergyResets ==
    [][(st_pc = "streaming" /\ st_pc' = "streaming" /\ pos' > pos) =>
        LET chunk == FilterChunk(Chunk(table, pos, pos' - pos), only_with, energy_max)
        IN \A key \in GroupKeys(chunk) :
              (\A k \in 1..Len(EarlierGroupDf(pos, key)) :
                    MinE(GroupDf(chunk, key)) < EarlierGroupDf(pos, key)[k].E)
              => /\ key \in DOMAIN lumped_states'
                 /\ lumped_states'[key] = ProcessStateGroup(GroupDf(chunk, key))
      ]_vars

\* C3: after all chunks the sets of states_map_lumped_to_original are pairwise
\* disjoint, their union is the set of the states indices that pass only_with
\* and energy_max, and every such index lies in the set of its own row's
\* resolved-quanta tuple.
C3_MapPartitionsSurvivors ==
    st_pc = "done" =>
        /\ \A g1, g2 \in DOMAIN states_map_lumped_to_original :
              g1 # g2 => states_map_lumped_to_original[g1]
                            \cap states_map_lumped_to_original[g2] = {}
        /\ UNION {states_map_lumped_to_original[g] :
                     g \in DOMAIN states_map_lumped_to_original} = SurvivingIndices
        /\ \A i \in SurvivingIndices :
              /\ <<table[i].v>> \in DOMAIN states_map_lumped_to_original
              /\ i \in states_map_lumped_to_original[<<table[i].v>>]

\* C3 witness: two chunks, a row that is filtered out, and two groups
C3_Witness ==
    /\ st_pc = "done"
    /\ chunk_size = 2
    /\ Len(table) = 3
    /\ SurvivingIndices # 1..Len(table)
    /\ Cardinality(DOMAIN states_map_lumped_to_original) = 2

\* C4: after process_states, states_map_original_to_lumped is the exact
\* inverse of states_map_lumped_to_original, so it is defined on every
\* surviving states index.
C4_MapsAreInverse ==
    st_pc = "done" =>
        /\ \A k \in DOMAIN states_map_original_to_lumped :
              /\ states_map_original_to_lumped[k] \in DOMAIN states_map_lumped_to_original
              /\ k \in states_map_lumped_to_original[states_map_original_to_lumped[k]]
        /\ \A g \in DOMAIN states_map_lumped_to_original :
              \A k \in states_map_lumped_to_original[g] :
                 /\ k \in DOMAIN states_map_original_to_lumped
                 /\ states_map_original_to_lumped[k] = g

\* a row survives: every only_with column has its value and E <= energy_max
C5_Survives(r) ==
    /\ \A c \in DOMAIN only_with : r[c] = only_with[c]
    /\ (energy_max.is_none \/ r.E <= energy_max.val)

\* C5: a row survives exactly when every only_with column equals its value and
\* E <= energy_max (none: no cut); in every chunk, the rows that do not survive
\* are in no set of the map and change no group's J, sum_w or sum_en_x_w: the
\* chunk has the effect of its surviving rows alone.
C5_FilteredRowsHaveNoEffect ==
    [][(st_pc = "streaming" /\ pos' > pos) =>
        LET survivors == SelectSeq(Chunk(table, pos, pos' - pos), C5_Survives)
        IN /\ (survivors # <<>>) =>
                 /\ st_pc' = "streaming"
                 /\ lumped_states' = MergeChunk(lumped_states, survivors)
                 /\ \A g \in DOMAIN states_map_lumped_to_original' :
                       states_map_lumped_to_original'[g] =
                           (IF g \in DOMAIN states_map_lumped_to_original
                            THEN states_map_lumped_to_original[g] ELSE {})
                           \cup {survivors[k].i : k \in {m \in 1..Len(survivors) :
                                                           <<survivors[m].v>> = g}}
           /\ (survivors = <<>>) =>
                 /\ lumped_states' = lumped_states
                 /\ states_map_lumped_to_original' = states_map_lumped_to_original
           /\ \A g \in DOMAIN states_map_lumped_to_original' :
                 \A i \in states_map_lumped_to_original'[g] : C5_Survives(table[i])
      ]_vars

\* C5 witness: a processed chunk with a row cut by energy_max, a row cut by
\* only_with and a surviving row with E = energy_max
C5_Witness ==
    /\ st_pc = "streaming"
    /\ pos = 3
    /\ chunk_size = 3
    /\ ~energy_max.is_none
    /\ DOMAIN only_with # {}
    /\ \E i \in 1..pos : table[i].E > energy_max.val
    /\ \E i \in 1..pos : \E c \in DOMAIN only_with : table[i][c] # only_with[c]
    /\ \E g \in DOMAIN states_map_lumped_to_original :
          \E i \in states_map_lumped_to_original[g] : table[i].E = energy_max.val

\* the surviving rows of a group, by states index
C6_GroupIndices(v) == {i \in SurvivingIndices : table[i].v = v}

\* the first row of minimal E of a group
C6_MinRow(v) ==
    CHOOSE i \in C6_GroupIndices(v) :
        \A m \in C6_GroupIndices(v) :
            table[i].E < table[m].E \/ (table[i].E = table[m].E /\ i <= m)

\* the rows of the group with the J of its minimum-E row
C6_MinJIndices(v) == {i \in C6_GroupIndices(v) : table[i].J = table[C6_MinRow(v)].J}

RECURSIVE C6_SumW(_)
C6_SumW(S) ==
    IF S = {} THEN 0
    ELSE LET i == CHOOSE m \in S : TRUE IN table[i].g_tot + C6_SumW(S \ {i})

RECURSIVE C6_SumEW(_)
C6_SumEW(S) ==
    IF S = {} THEN 0
    ELSE LET i == CHOOSE m \in S : TRUE
         IN table[i].E * table[i].g_tot + C6_SumEW(S \ {i})

C6_OneChunk == st_pc = "done" /\ chunk_size >= Len(table)

\* C6 as stated: with the table as one chunk, the lumped E of every group equals
\* (sum of E*g_tot) / (sum of g_tot) over the group's surviving rows with the J
\* of the group's minimum-E row.
C6_ExactWeightedMean ==
    C6_OneChunk =>
        /\ DOMAIN self_lumped_states = {<<table[i].v>> : i \in SurvivingIndices}
        /\ \A g \in DOMAIN self_lumped_states :
              /\ self_lumped_states[g].E.t = "num"
              /\ self_lumped_states[g].E.x * C6_SumW(C6_MinJIndices(g[1]))
                     = C6_SumEW(C6_MinJIndices(g[1])) * Scale

\* C6 amended: the lumped E is that quotient rounded to 5 decimals (E is within
\* half of 1e-5 of the quotient), and the group's J is the J of its minimum-E row.
C6_RoundedWeightedMean ==
    C6_OneChunk =>
        /\ DOMAIN self_lumped_states = {<<table[i].v>> : i \in SurvivingIndices}
        /\ \A g \in DOMAIN self_lumped_states :
              LET sw == C6_SumW(C6_MinJIndices(g[1]))
                  sew == C6_SumEW(C6_MinJIndices(g[1]))
                  d == self_lumped_states[g].E.x * sw - sew * Scale
              IN /\ self_lumped_states[g].E.t = "num"
                 /\ self_lumped_states[g].J = Num(table[C6_MinRow(g[1])].J)
                 /\ 2 * d <= sw
                 /\ -2 * d <= sw

\* C6 witness: the rows (E, J, g_tot) = (10,0,2), (10,0,3), (12,1,5) of one
\* group give sums 50 and 5, E = 10
C6_Witness ==
    /\ C6_OneChunk
    /\ Len(table) = 3
    /\ \A i \in 1..3 : table[i].v = 0
    /\ <<table[1].E, table[1].J, table[1].g_tot>> = <<10, 0, 2>>
    /\ <<table[2].E, table[2].J, table[2].g_tot>> = <<10, 0, 3>>
    /\ <<table[3].E, table[3].J, table[3].g_tot>> = <<12, 1, 5>>
    /\ SurvivingIndices = {1, 2, 3}
    /\ C6_SumW(C6_MinJIndices(0)) = 5
    /\ C6_SumEW(C6_MinJIndices(0)) = 50
    /\ self_lumped_states[<<0>>].E = Num(10 * Scale)

(***************************************************************************)
(* Properties of MoleculeInput.__init__                                    *)
(***************************************************************************)
C7_BothEmpty == Len(mi.resolve_el) = 0 /\ Len(mi.resolve_vib) = 0

C7_Overlap == \E a \in 1..Len(mi.resolve_el), b \in 1..Len(mi.resolve_vib) :
                 mi.resolve_el[a] = mi.resolve_vib[b]

C7_Rejected == in_pc = "rejected" /\ in_error.kind = "MoleculeInputError"

\* the existence checks and the glob that come before the states header
C7_PathOps ==
    <<"mol_root.is_dir", "iso_root.is_dir", "ds_root.is_dir", "def_path.is_file",
      "states_path.is_file", "ds_root.glob">>

C7_Sniffed == \E k \in 1..Len(io_log) :
                 io_log[k] \in {"get_num_columns(states_path)",
                                "get_num_columns(trans_paths[0])"}

C10_Resolved == Range(mi.resolve_el) \cup Range(mi.resolve_vib)

\* C10: a MoleculeInput whose construction completed has disjoint resolve_el
\* and resolve_vib with a non-empty union, free of the fixed column names, every
\* resolved label a column of states_header, every only_with key a non-fixed
\* column of states_header or "J", as many header columns as the states file
\* has, and at least one transition file.
C10_AcceptedIsValid ==
    in_pc = "accepted" =>
        /\ Range(mi.resolve_el) \cap Range(mi.resolve_vib) = {}
        /\ C10_Resolved # {}
        /\ \A q \in C10_Resolved : q \notin {"i", "E", "g_tot", "J", "tau", "g_J"}
        /\ \A q \in C10_Resolved : \E k \in 1..Len(mi.states_header) : mi.states_header[k] = q
        /\ \A key \in mi.only_with :
              \/ key = "J"
              \/ /\ key \notin {"i", "E", "g_tot", "J", "tau", "g_J"}
                 /\ \E k \in 1..Len(mi.states_header) : mi.states_header[k] = key
        /\ Len(mi.states_header) = mi.states_num_columns
        /\ mi.trans_paths >= 1

\* C10 witness: an accepted request with a resolved label, an only_with key
\* that is a quantum label, and a header derived from the .def file
C10_Witness ==
    /\ in_pc = "accepted"
    /\ mi.def_parsed
    /\ mi.resolve_vib = <<"v">>
    /\ mi.only_with = {"J", "par"}
    /\ mi.trans_paths = 2

\* MoleculeInput rejected the request for a label of resolve_el, resolve_vib or
\* only_with
C20_LabelRejected ==
    /\ in_pc = "rejected"
    /\ in_error \in
          {MoleculeInputError("Unsupported values found in 'resolve_el' or 'resolve_vib'!"),
           MoleculeInputError("Unrecognised only_with passed")}

\* C20: the two validators agree: DatasetProcessor.__init__ raises nothing for
\* a request MoleculeInput accepted (one with the only_with key J among them),
\* and a request MoleculeInput rejected for one of its labels has a label
\* DatasetProcessor.__init__ rejects too.
C20_ValidatorsAgree ==
    /\ dp_pc # "idle" => dp_error.kind = "none"
    /\ C20_LabelRejected =>
          ProcessorError(mi.resolve_el, mi.resolve_vib, mi.only_with,
                         mi.states_header).kind # "none"

(***************************************************************************)
(* Properties of _parse_exomol_def_raw and ExomolDef                       *)
(***************************************************************************)
\* the failures of the formula check, which are not failures of a line
C8_FormulaFailure ==
    def_error.msg.text \in {"FormulaParseError", "Incorrect number of atoms in"}

\* C8: every structural failure of _parse_exomol_def_raw (a line without "# ",
\* the text running out, a value that does not convert to the type of its field)
\* is an ExomolDefParseError whose message carries the file label and, when a
\* line was read, the 1-based number of that line in the text.
C8_StructuralFailureIsDefParseError ==
    (def_error.kind # "none" /\ ~C8_FormulaFailure) =>
        /\ def_error.kind = "ExomolDefParseError"
        /\ def_error.msg.file = file_name
        /\ (def_line.kind # "blank" => def_error.msg.line_num = popped)

\* the list C9 describes, position by position
C9_Header(lifetime, lande, labels) ==
    LET n == 4 + (IF lifetime THEN 1 ELSE 0) + (IF lande THEN 1 ELSE 0)
    IN [k \in 1..(n + Len(labels)) |->
           IF k = 1 THEN "i"
           ELSE IF k = 2 THEN "E"
           ELSE IF k = 3 THEN "g_tot"
           ELSE IF k = 4 THEN "J"
           ELSE IF k = 5 /\ lifetime THEN "tau"
           ELSE IF k <= n THEN "g_J"
           ELSE labels[k - n]]

\* C9: for a parsed definition, get_states_header is i, E, g_tot, J, then tau
\* exactly when lifetimes are available, then g_J exactly when Lande factors
\* are, then the quantum labels in the order of the .def text; the header
\* MoleculeInput derives from the same flags and labels is the same list.
C9_StatesHeader ==
    def_pc = "done" =>
        LET header == C9_Header(kwargs.lifetime_availability,
                                kwargs.lande_factor_availability, kwargs.quanta)
        IN /\ GetStatesHeader(kwargs) = header
           /\ DerivedStatesHeader(kwargs.lifetime_availability,
                                  kwargs.lande_factor_availability,
                                  GetQuantaLabels(kwargs)) = header

\* C9 witness: a parsed definition with lifetimes, without Lande factors, and
\* with the two quantum labels par, v in this order
C9_Witness ==
    /\ def_pc = "done"
    /\ kwargs.lifetime_availability
    /\ ~kwargs.lande_factor_availability
    /\ kwargs.quanta = <<"par", "v">>
    /\ GetStatesHeader(kwargs) = <<"i", "E", "g_tot", "J", "tau", "par", "v">>

\* the fields read up to the check of the formula
C18_BeforeIsotopes ==
    {"id", "iso_formula", "iso_slug", "dataset_name", "version", "inchi_key",
     "num_atoms"}

\* C18: a parsed definition has as many Isotope records as the declared number
\* of atoms, which is the natoms of the formula, and as many irreducible
\* representations, quantum cases and quanta as their declared counts; a
\* declared number of atoms other than the natoms of the formula raises
\* ExomolDefParseError at the num_atoms field, before an isotope line is read.
C18_RecordsMatchDeclaredCounts ==
    /\ def_pc = "done" =>
          /\ kwargs.isotopes = kwargs.num_atoms
          /\ kwargs.isotopes = kwargs.formula_natoms
          /\ kwargs.irreducible_representations = kwargs.num_irreducible_representations
          /\ kwargs.quanta_cases = kwargs.num_quanta_cases
          /\ Len(kwargs.quanta) = kwargs.num_quanta
    /\ (def_pc \notin C18_BeforeIsotopes \cup {"idle"}) =>
          kwargs.num_atoms = kwargs.formula_natoms
    /\ def_error.msg.text = "Incorrect number of atoms in" =>
          /\ def_error.kind = "ExomolDefParseError"
          /\ def_pc = "num_atoms"

(***************************************************************************)
(* Properties of get_all_inputs                                            *)
(***************************************************************************)
\* the entry the claim gives a formula
C11_Entry(construction) ==
    IF construction = "MoleculeInput" THEN "MoleculeInput" ELSE "None"

\* C11: get_all_inputs returns a mapping with exactly one entry per formula of
\* the input file, the MoleculeInput or None for a formula whose validation
\* raised MoleculeInputError or DefParseError under bypass_exceptions; with
\* bypass_exceptions such a formula does not stop the ones after it.
C11_AllInputsReturned ==
    /\ ga_pc = "done" =>
          /\ ~ga_return.is_none
          /\ ga_return.val = [k \in 1..Len(inputs_dict) |-> C11_Entry(inputs_dict[k])]
    /\ (ga_pc = "raised" /\ bypass_exceptions) => ~Bypassed(ga_error)

(***************************************************************************)
(* Properties of trans_chunks                                              *)
(***************************************************************************)
\* the chunks of the files from position k on, in the order of the claim
RECURSIVE C12_ChunksFrom(_, _)
C12_ChunksFrom(k, schema) ==
    IF k > Len(trans_files) THEN <<>>
    ELSE [c \in 1..trans_files[k].chunks |->
             [file |-> k, chunk |-> c, columns |-> schema]]
         \o C12_ChunksFrom(k + 1, schema)

C12_Schema ==
    IF trans_files[1].cols = 4 THEN <<"i", "f", "A_if", "v_if">>
    ELSE <<"i", "f", "A_if">>

C12_FirstIsBad == trans_files[1].cols \notin {3, 4}

\* C12: trans_chunks takes the schema of the first file only. With neither 3
\* nor 4 columns there it raises ExomolTransParseError and yields no chunk;
\* otherwise it yields every chunk of every file, files in list order and
\* chunks in file order, all with the schema i, f, A_if (and v_if when 4).
C12_TransChunksInOrder ==
    tr_pc # "idle" =>
        /\ C12_FirstIsBad =>
              /\ yielded = <<>>
              /\ tr_pc \in {"start", "failed"}
              /\ (tr_pc = "failed" => tr_error = "ExomolTransParseError")
        /\ ~C12_FirstIsBad =>
              /\ tr_pc # "failed"
              /\ Len(yielded) <= Len(C12_ChunksFrom(1, C12_Schema))
              /\ yielded = SubSeq(C12_ChunksFrom(1, C12_Schema), 1, Len(yielded))
              /\ (tr_pc = "done" => yielded = C12_ChunksFrom(1, C12_Schema))

\* C12 witness: two files, the first with 4 columns and two chunks, the second
\* with 3 columns, all chunks yielded with the schema of the first
C12_Witness ==
    /\ tr_pc = "done"
    /\ Len(trans_files) = 2
    /\ trans_files[1] = [cols |-> 4, chunks |-> 2]
    /\ trans_files[2].cols = 3
    /\ \A k \in 1..Len(yielded) : yielded[k].columns = <<"i", "f", "A_if", "v_if">>
    /\ yielded[Len(yielded)].file = 2

(***************************************************************************)
(* Properties of parse_exomol_line                                         *)
(***************************************************************************)
\* the lines of the original text popped before the last call
C13_PoppedBefore == Len(ln_text) - Len(ln_last.before)

\* the blank lines in front of the list the last call was given
C13_LeadingBlanks ==
    CHOOSE b \in 0..Len(ln_last.before) :
        /\ \A j \in 1..b : ln_last.before[j].kind = "blank"
        /\ (b < Len(ln_last.before) => ln_last.before[b + 1].kind # "blank")

\* C13: a call that returns a value has removed from the front of the list the
\* blank lines before the next non-blank line and that line, returns the value
\* of that line (one that converts to val_type), and the line number it computes
\* is the 1-based position of that line in the original text.
C13_PopsOneValueLine ==
    ln_last.outcome = "ok" =>
        LET b == C13_LeadingBlanks
        IN /\ b < Len(ln_last.before)
           /\ ln_lines = SubSeq(ln_last.before, b + 2, Len(ln_last.before))
           /\ ln_last.val = ln_last.before[b + 1]
           /\ ln_last.val.kind = "val"
           /\ (ln_last.val_type = "int" => ln_last.val.t = "int")
           /\ (ln_last.val_type = "float" => ln_last.val.t \in {"int", "float"})
           /\ ln_last.line_num = C13_PoppedBefore + b + 1
           /\ ln_text[ln_last.line_num] = ln_last.val
           /\ ln_lines = SubSeq(ln_text, ln_last.line_num + 1, Len(ln_text))

\* C13 witness: the second value of a text is returned by the second call,
\* after a blank line, as the third line of the text
C13_Witness ==
    /\ ln_last.outcome = "ok"
    /\ Len(ln_last.before) = 2
    /\ ln_last.before[1].kind = "blank"
    /\ ln_last.val_type = "int"
    /\ ln_last.line_num = 3
    /\ ln_text[1].kind = "val"

\* C14: a call that raises ExomolLineCommentError or ExomolLineValueError for
\* a line has removed that line (and the blank lines before it) from the list;
\* the list is not restored, and the next call goes on with the line after it.
C14_ErrorPopsTheLine ==
    (ln_last.outcome \in {"ExomolLineCommentError", "ExomolLineValueError"}
     /\ ln_last.val.kind # "blank") =>
        LET b == C13_LeadingBlanks
        IN /\ b < Len(ln_last.before)
           /\ ln_last.val = ln_last.before[b + 1]
           /\ (ln_last.outcome = "ExomolLineCommentError" <=> ln_last.val.kind = "nosep")
           /\ ln_lines = SubSeq(ln_last.before, b + 2, Len(ln_last.before))
           /\ Len(ln_lines) < Len(ln_last.before)

\* C14 witness: a call raised ExomolLineValueError for the first line of three
\* and the list is left with the two lines after it
C14_Witness ==
    /\ ln_last.outcome = "ExomolLineValueError"
    /\ ln_last.val.kind = "val"
    /\ ln_last.before = ln_text
    /\ Len(ln_text) = 3
    /\ ln_lines = SubSeq(ln_text, 2, 3)

(***************************************************************************)
(* Properties of the merge of a chunk in process_states                    *)
(***************************************************************************)
\* a step of ProcessChunk that merged a chunk with surviving rows
C15_Merged == st_pc = "streaming" /\ st_pc' = "streaming" /\ pos' > pos

\* the surviving rows of the chunk of the step
C15_StepChunk == FilterChunk(Chunk(table, pos, pos' - pos), only_with, energy_max)

\* C15: for a group that has a running aggregate, when the minimum-energy J of
\* the chunk's rows of the group equals the J of the running aggregate, the
\* chunk leaves the group's J as it is and adds its local sums to sum_w and
\* sum_en_x_w.
C15_EqualJAddsSums ==
    [][C15_Merged =>
        \A key \in GroupKeys(C15_StepChunk) \cap DOMAIN lumped_states :
           LET local == ProcessStateGroup(GroupDf(C15_StepChunk, key))
           IN (lumped_states[key].J.t = "num" /\ lumped_states[key].J = local.J) =>
                 /\ key \in DOMAIN lumped_states'
                 /\ lumped_states'[key].J = lumped_states[key].J
                 /\ lumped_states'[key].sum_w = FAdd(lumped_states[key].sum_w, local.sum_w)
                 /\ lumped_states'[key].sum_en_x_w =
                        FAdd(lumped_states[key].sum_en_x_w, local.sum_en_x_w)
      ]_vars

\* the surviving rows of a group with the minimal E of the group
C16_TiedIndices(v) ==
    {i \in C6_GroupIndices(v) : table[i].E = table[C6_MinRow(v)].E}

\* C16 as stated, for rows of one chunk: every surviving row with the minimal
\* E of its group is in the sums of the group, whatever its J.
C16_AllTiedRowsSummed ==
    C6_OneChunk =>
        \A g \in DOMAIN lumped_states :
           LET rows == C6_MinJIndices(g[1]) \cup C16_TiedIndices(g[1])
           IN /\ lumped_states[g].sum_w = Num(C6_SumW(rows))
              /\ lumped_states[g].sum_en_x_w = Num(C6_SumEW(rows))

\* C16 amended: of the rows of one chunk, the sums of a group cover exactly the
\* surviving rows that have the J of the first row (in file order) of minimal
\* E; a row of minimal E with another J is left out of the sums.
C16_FirstJRowsSummed ==
    C6_OneChunk =>
        /\ DOMAIN lumped_states = {<<table[i].v>> : i \in SurvivingIndices}
        /\ \A g \in DOMAIN lumped_states :
              /\ lumped_states[g].J = Num(table[C6_MinRow(g[1])].J)
              /\ lumped_states[g].sum_w = Num(C6_SumW(C6_MinJIndices(g[1])))
              /\ lumped_states[g].sum_en_x_w = Num(C6_SumEW(C6_MinJIndices(g[1])))

\* C16 witness: two rows of one group with the same E and J = 1, then J = 0, in
\* one chunk; the sums hold the first row only
C16_Witness ==
    /\ C6_OneChunk
    /\ Len(table) = 2
    /\ SurvivingIndices = {1, 2}
    /\ table[1].v = table[2].v
    /\ table[1].E = table[2].E
    /\ table[1].J = 1 /\ table[2].J = 0
    /\ lumped_states[<<table[1].v>>].sum_w = Num(table[1].g_tot)

\* C17: the membership map only grows: a key stays, its set after a chunk holds
\* its set before the chunk, and the index of every surviving row of the chunk
\* is in the set of the row's group, whatever the row's J and whatever the
\* merge does with the sums of the group.
C17_MapOnlyGrows ==
    [][/\ \A key \in DOMAIN states_map_lumped_to_original :
             /\ key \in DOMAIN states_map_lumped_to_original'
             /\ states_map_lumped_to_original[key]
                    \subseteq states_map_lumped_to_original'[key]
       /\ C15_Merged =>
             \A k \in 1..Len(C15_StepChunk) :
                /\ <<C15_StepChunk[k].v>> \in DOMAIN states_map_lumped_to_original'
                /\ C15_StepChunk[k].i
                       \in states_map_lumped_to_original'[<<C15_StepChunk[k].v>>]
      ]_vars

\* C17 witness: one row per chunk, the second row of the group of the first
\* with a higher E and another J; both indices are in the set of the group
C17_Witness ==
    /\ st_pc = "streaming"
    /\ chunk_size = 1
    /\ pos = 2
    /\ table[1].v = table[2].v
    /\ table[1].E < table[2].E
    /\ table[1].J # table[2].J
    /\ states_map_lumped_to_original[<<table[1].v>>] = {1, 2}

\* C19: a chunk leaves the running aggregate (J, sum_w, sum_en_x_w) of a group
\* as it is when it has no surviving row of the group, or when the minimum-energy
\* J of its rows of the group is higher than the running J.
C19_OtherGroupsUnchanged ==
    [][C15_Merged =>
        \A key \in DOMAIN lumped_states :
           (\/ key \notin GroupKeys(C15_StepChunk)
            \/ /\ key \in GroupKeys(C15_StepChunk)
               /\ FLt(lumped_states[key].J,
                      ProcessStateGroup(GroupDf(C15_StepChunk, key)).J))
           => /\ key \in DOMAIN lumped_states'
              /\ lumped_states'[key] = lumped_states[key]
      ]_vars

====
